---- MODULE Spec2Model ----
(***************************************************************************)
(* clad::Graph<T> (include/clad/Differentiator/Graph.h): a directed graph  *)
(* with soft-deleted nodes, forward and reverse adjacency, a source set,   *)
(* reachability pruning and a DFS topological sort; and the driver of      *)
(* test/Misc/Graph.C.                                                      *)
(***************************************************************************)
EXTENDS Integers, Sequences, FiniteSets, TLC

\* Number of distinct node values the callers of Spec draw from.
MaxValue == 3
\* Size of a behaviour of Spec: the values it draws from plus the calls it makes.
MaxSize == 7
\* Number of calls of the public interface a behaviour of Spec makes.
MaxOps == MaxSize - MaxValue
\* Loop bound of the driver's construction loop (i < 6).
LoopCount == 6

VARIABLES nodes, nodeMap, adjList, revAdjList, sources, lastOp, prev, nops, test, run

vars == <<nodes, nodeMap, adjList, revAdjList, sources, lastOp, prev, nops, test, run>>

-----------------------------------------------------------------------------
\* The element type T: the test's struct Node {name, id}.
Node(name, id) == [name |-> name, id |-> id]

\* Node::operator std::string: name + std::to_string(id).
NodeString(n) == n.name \o ToString(n.id)

\* The values the callers of Spec pass in.
Values == {Node("node", i) : i \in 1..MaxValue}

\* The private fields of Graph<T> as one record.
G == [nodes |-> nodes, nodeMap |-> nodeMap, adjList |-> adjList,
      revAdjList |-> revAdjList, sources |-> sources]

\* Graph() = default: every container empty.
EmptyGraph == [nodes |-> <<>>, nodeMap |-> <<>>, adjList |-> <<>>,
               revAdjList |-> <<>>, sources |-> {}]

\* Iteration order of a std::set<size_t>: ascending.
RECURSIVE SetIter(_)
SetIter(S) ==
  IF S = {} THEN <<>>
  ELSE LET m == CHOOSE x \in S : \A y \in S : x <= y
       IN <<m>> \o SetIter(S \ {m})

\* The iteration orders an std::unordered_map with the keys K can have: the
\* order depends on the hash and the bucket count, so any order of K.
RECURSIVE MapIterOrders(_)
MapIterOrders(K) ==
  IF K = {} THEN {<<>>}
  ELSE UNION {{<<k>> \o rest : rest \in MapIterOrders(K \ {k})} : k \in K}

-----------------------------------------------------------------------------
\* addNode registering a removed node anew, under the next id, instead of
\* flipping its flag.
addNodeFreshId(g, node, isSource) ==
  IF node \notin DOMAIN g.nodeMap \/ g.nodeMap[node].first = FALSE
    THEN LET id == Len(g.nodes)
         IN [nodes      |-> Append(g.nodes, node),
             nodeMap    |-> (node :> [first |-> TRUE, second |-> id]) @@ g.nodeMap,
             adjList    |-> (id :> {}) @@ g.adjList,
             revAdjList |-> (id :> {}) @@ g.revAdjList,
             sources    |-> IF isSource THEN g.sources \cup {id} ELSE g.sources]
    ELSE g

\* addNode honouring isSource also for a value it already knows.
addNodeSourceOnReadd(g, node, isSource) ==
  IF node \notin DOMAIN g.nodeMap
    THEN LET id == Len(g.nodes)
         IN [nodes      |-> Append(g.nodes, node),
             nodeMap    |-> (node :> [first |-> TRUE, second |-> id]) @@ g.nodeMap,
             adjList    |-> (id :> {}) @@ g.adjList,
             revAdjList |-> (id :> {}) @@ g.revAdjList,
             sources    |-> IF isSource THEN g.sources \cup {id} ELSE g.sources]
    ELSE [g EXCEPT !.nodeMap[node].first = TRUE,
                   !.sources = IF isSource THEN @ \cup {g.nodeMap[node].second} ELSE @]

\* void addNode(const T& node, bool isSource = false)
addNode(g, node, isSource) ==
  IF node \notin DOMAIN g.nodeMap
    THEN LET id == Len(g.nodes)
         IN [nodes      |-> Append(g.nodes, node),
             nodeMap    |-> (node :> [first |-> TRUE, second |-> id]) @@ g.nodeMap,
             adjList    |-> (id :> {}) @@ g.adjList,
             revAdjList |-> (id :> {}) @@ g.revAdjList,
             sources    |-> IF isSource THEN g.sources \cup {id} ELSE g.sources]
    ELSE IF g.nodeMap[node].first = FALSE
      THEN [g EXCEPT !.nodeMap[node].first = TRUE]
      ELSE g

\* addEdge without the insertion into revAdjList.
addEdgeOneWay(g, src, dest) ==
  LET g1     == addNode(g, src, FALSE)
      g2     == addNode(g1, dest, FALSE)
      srcId  == g2.nodeMap[src].second
      destId == g2.nodeMap[dest].second
  IN [g2 EXCEPT !.adjList[srcId] = @ \cup {destId}]

\* addEdge calling addNode only for the endpoints nodeMap does not hold.
addEdgeNoReactivate(g, src, dest) ==
  LET g1     == IF src \in DOMAIN g.nodeMap THEN g ELSE addNode(g, src, FALSE)
      g2     == IF dest \in DOMAIN g1.nodeMap THEN g1 ELSE addNode(g1, dest, FALSE)
      srcId  == g2.nodeMap[src].second
      destId == g2.nodeMap[dest].second
  IN [g2 EXCEPT !.adjList[srcId]     = @ \cup {destId},
                !.revAdjList[destId] = @ \cup {srcId}]

\* void addEdge(const T& src, const T& dest)
addEdge(g, src, dest) ==
  LET g1     == addNode(g, src, FALSE)
      g2     == addNode(g1, dest, FALSE)
      srcId  == g2.nodeMap[src].second
      destId == g2.nodeMap[dest].second
  IN [g2 EXCEPT !.adjList[srcId]     = @ \cup {destId},
                !.revAdjList[destId] = @ \cup {srcId}]

\* removeNode without the loop that erases id from its predecessors' adjList.
removeNodeNoBackErase(g, node) ==
  IF node \in DOMAIN g.nodeMap
    THEN LET id   == g.nodeMap[node].second
             rev1 == [d \in DOMAIN g.revAdjList |->
                        IF d \in g.adjList[id] THEN g.revAdjList[d] \ {id}
                                               ELSE g.revAdjList[d]]
             adj1 == [g.adjList EXCEPT ![id] = {}]
             rev2 == [rev1 EXCEPT ![id] = {}]
         IN [g EXCEPT !.nodeMap[node].first = FALSE,
                      !.adjList = adj1,
                      !.revAdjList = rev2]
    ELSE g

\* removeNode without adjList[id].clear() and revAdjList[id].clear().
removeNodeNoClear(g, node) ==
  IF node \in DOMAIN g.nodeMap
    THEN LET id   == g.nodeMap[node].second
             rev1 == [d \in DOMAIN g.revAdjList |->
                        IF d \in g.adjList[id] THEN g.revAdjList[d] \ {id}
                                               ELSE g.revAdjList[d]]
             adj2 == [s \in DOMAIN g.adjList |->
                        IF s \in rev1[id] THEN g.adjList[s] \ {id} ELSE g.adjList[s]]
         IN [g EXCEPT !.nodeMap[node].first = FALSE,
                      !.adjList = adj2,
                      !.revAdjList = rev1]
    ELSE g

\* removeNode that also erases the id from sources.
removeNodeDropSource(g, node) ==
  IF node \in DOMAIN g.nodeMap
    THEN LET id   == g.nodeMap[node].second
             rev1 == [d \in DOMAIN g.revAdjList |->
                        IF d \in g.adjList[id] THEN g.revAdjList[d] \ {id}
                                               ELSE g.revAdjList[d]]
             adj1 == [g.adjList EXCEPT ![id] = {}]
             adj2 == [s \in DOMAIN adj1 |->
                        IF s \in rev1[id] THEN adj1[s] \ {id} ELSE adj1[s]]
             rev2 == [rev1 EXCEPT ![id] = {}]
         IN [g EXCEPT !.nodeMap[node].first = FALSE,
                      !.adjList = adj2,
                      !.revAdjList = rev2,
                      !.sources = @ \ {id}]
    ELSE g

\* removeNode that only clears the active flag.
removeNodeFlagOnly(g, node) ==
  IF node \in DOMAIN g.nodeMap
    THEN [g EXCEPT !.nodeMap[node].first = FALSE]
    ELSE g

\* void removeNode(const T& node)
removeNode(g, node) ==
  IF node \in DOMAIN g.nodeMap
    THEN LET id   == g.nodeMap[node].second
             \* for destId in adjList[id]: revAdjList[destId].erase(id)
             rev1 == [d \in DOMAIN g.revAdjList |->
                        IF d \in g.adjList[id] THEN g.revAdjList[d] \ {id}
                                               ELSE g.revAdjList[d]]
             \* adjList[id].clear()
             adj1 == [g.adjList EXCEPT ![id] = {}]
             \* for srcId in revAdjList[id]: adjList[srcId].erase(id)
             adj2 == [s \in DOMAIN adj1 |->
                        IF s \in rev1[id] THEN adj1[s] \ {id} ELSE adj1[s]]
             \* revAdjList[id].clear()
             rev2 == [rev1 EXCEPT ![id] = {}]
         IN [g EXCEPT !.nodeMap[node].first = FALSE,
                      !.adjList = adj2,
                      !.revAdjList = rev2]
    ELSE g

\* getNodes without the test of the active flag.
getNodesAll(g) == g.nodes

\* getNodes walking the active values in the order of their payload id
\* instead of the order of the vector nodes.
getNodesByValue(g) ==
  LET act == {g.nodes[i] : i \in {j \in DOMAIN g.nodes : g.nodeMap[g.nodes[j]].first}}
      ord == SetIter({n.id : n \in act})
  IN [i \in 1..Len(ord) |-> CHOOSE n \in act : n.id = ord[i]]

\* std::vector<T> getNodes()
getNodes(g) == SelectSeq(g.nodes, LAMBDA n : g.nodeMap[n].first)

\* std::unordered_map::operator[]: the map after m[k], which inserts a
\* value-initialised entry when k is absent.
Subscript(m, k, init) == IF k \in DOMAIN m THEN m ELSE (k :> init) @@ m

\* bool isConnected(const T& src, const T& dest), a non-const member: the
\* graph it leaves (g) and the value it returns (ret), the find() guard skipped.
isConnectedNoFind(g, src, dest) ==
  LET nm1    == Subscript(g.nodeMap, src, [first |-> FALSE, second |-> 0])
      srcId  == nm1[src].second
      nm2    == Subscript(nm1, dest, [first |-> FALSE, second |-> 0])
      destId == nm2[dest].second
      adj    == Subscript(g.adjList, srcId, {})
  IN [g |-> [g EXCEPT !.nodeMap = nm2, !.adjList = adj], ret |-> destId \in adj[srcId]]

\* isConnected answering whether dest can be reached from src over one or
\* more edges.
isConnectedTransitive(g, src, dest) ==
  IF src \notin DOMAIN g.nodeMap \/ dest \notin DOMAIN g.nodeMap
    THEN [g |-> g, ret |-> FALSE]
    ELSE LET srcId  == g.nodeMap[src].second
             destId == g.nodeMap[dest].second
             RECURSIVE reach(_)
             reach(S) == LET T == S \cup UNION {g.adjList[x] : x \in S}
                         IN IF T = S THEN S ELSE reach(T)
         IN [g |-> g, ret |-> destId \in reach(g.adjList[srcId])]

\* isConnected looking up only src with find().
isConnectedNoDestFind(g, src, dest) ==
  IF src \notin DOMAIN g.nodeMap
    THEN [g |-> g, ret |-> FALSE]
    ELSE LET nm1    == Subscript(g.nodeMap, src, [first |-> FALSE, second |-> 0])
             srcId  == nm1[src].second
             nm2    == Subscript(nm1, dest, [first |-> FALSE, second |-> 0])
             destId == nm2[dest].second
             adj    == Subscript(g.adjList, srcId, {})
         IN [g |-> [g EXCEPT !.nodeMap = nm2, !.adjList = adj],
             ret |-> destId \in adj[srcId]]

\* bool isConnected(const T& src, const T& dest), a non-const member: the
\* graph it leaves (g) and the value it returns (ret).
isConnected(g, src, dest) ==
  IF src \notin DOMAIN g.nodeMap \/ dest \notin DOMAIN g.nodeMap
    THEN [g |-> g, ret |-> FALSE]
    ELSE LET nm1    == Subscript(g.nodeMap, src, [first |-> FALSE, second |-> 0])
             srcId  == nm1[src].second
             nm2    == Subscript(nm1, dest, [first |-> FALSE, second |-> 0])
             destId == nm2[dest].second
             adj    == Subscript(g.adjList, srcId, {})
         IN [g |-> [g EXCEPT !.nodeMap = nm2, !.adjList = adj],
             ret |-> destId \in adj[srcId]]

\* The first loop of print(): one line per active node.
printNodes(g) ==
  LET line(n) == NodeString(n) \o ": #" \o ToString(g.nodeMap[n].second)
                 \o (IF g.nodeMap[n].second \in g.sources THEN " (source)" ELSE "")
      RECURSIVE go(_)
      go(i) == IF i > Len(g.nodes) THEN <<>>
               ELSE (IF g.nodeMap[g.nodes[i]].first THEN <<line(g.nodes[i])>> ELSE <<>>)
                    \o go(i + 1)
  IN go(1)

\* The second loop of print(): one line per edge leaving an active node.
printEdges(g) ==
  LET edges(i) == LET ds == SetIter(g.adjList[i])
                  IN [k \in 1..Len(ds) |-> ToString(i) \o " -> " \o ToString(ds[k])]
      RECURSIVE go(_)
      go(i) == IF i >= Len(g.nodes) THEN <<>>
               ELSE (IF g.nodeMap[g.nodes[i + 1]].first THEN edges(i) ELSE <<>>)
                    \o go(i + 1)
  IN go(0)

\* void print(): the lines written to std::cout.
print(g) == printNodes(g) \o printEdges(g)

\* The while loop of removeNonReachable() popping without pushing the
\* destinations: only the sources are visited.
visitStackNoPush(g, stack, visited) == visited

\* The while loop of removeNonReachable() following revAdjList.
RECURSIVE visitStackRev(_, _, _)
visitStackRev(g, stack, visited) ==
  IF stack = <<>> THEN visited
  ELSE LET node   == stack[Len(stack)]
           rest   == SubSeq(stack, 1, Len(stack) - 1)
           pushed == SetIter(g.revAdjList[node] \ visited)
       IN visitStackRev(g, rest \o pushed, visited \cup g.revAdjList[node])

\* The while loop of removeNonReachable(): the visited set once the stack is empty.
RECURSIVE visitStack(_, _, _)
visitStack(g, stack, visited) ==
  IF stack = <<>> THEN visited
  ELSE LET node   == stack[Len(stack)]
           rest   == SubSeq(stack, 1, Len(stack) - 1)
           pushed == SetIter(g.adjList[node] \ visited)
       IN visitStack(g, rest \o pushed, visited \cup g.adjList[node])

\* The last loop of removeNonReachable(), over nodeMap in the order `order`.
RECURSIVE pruneLoop(_, _, _, _)
pruneLoop(g, order, i, visited) ==
  IF i > Len(order) THEN g
  ELSE LET it == g.nodeMap[order[i]]
       IN pruneLoop(IF it.first /\ it.second \notin visited
                      THEN removeNode(g, order[i]) ELSE g,
                    order, i + 1, visited)

\* removeNonReachable pushing the sources without marking them visited.
removeNonReachableSeedUnvisited(g, order) ==
  pruneLoop(g, order, 1, visitStack(g, SetIter(g.sources), {}))

\* void removeNonReachable(), nodeMap being iterated in the order `order`.
removeNonReachable(g, order) ==
  pruneLoop(g, order, 1, visitStack(g, SetIter(g.sources), g.sources))

\* The lambda dfs of topologicalSort and its for loop over adjList[node];
\* st is the captured [visited, res].
RECURSIVE dfs(_, _, _)
RECURSIVE dfsLoop(_, _, _, _)
dfsLoop(g, dests, i, st) ==
  IF i > Len(dests) THEN st
  ELSE dfsLoop(g, dests, i + 1,
               IF dests[i] \notin st.visited THEN dfs(g, dests[i], st) ELSE st)

dfs(g, node, st) ==
  LET st1 == [st EXCEPT !.visited = @ \cup {node}]
      st2 == dfsLoop(g, SetIter(g.adjList[node]), 1, st1)
  IN [st2 EXCEPT !.res = Append(@, g.nodes[node + 1])]

\* std::reverse
Reverse(s) == [i \in 1..Len(s) |-> s[Len(s) + 1 - i]]

\* topologicalSort without std::reverse.
topologicalSortNoReverse(g, reverseOrder) ==
  dfsLoop(g, SetIter(g.sources), 1, [visited |-> {}, res |-> <<>>]).res

\* topologicalSort starting dfs at every source, visited or not.
topologicalSortNoSkip(g, reverseOrder) ==
  LET RECURSIVE each(_, _, _)
      each(srcs, i, st) == IF i > Len(srcs) THEN st
                           ELSE each(srcs, i + 1, dfs(g, srcs[i], st))
      res == each(SetIter(g.sources), 1, [visited |-> {}, res |-> <<>>]).res
  IN IF reverseOrder THEN res ELSE Reverse(res)

\* std::vector<T> topologicalSort(bool reverseOrder = false)
topologicalSort(g, reverseOrder) ==
  LET res == dfsLoop(g, SetIter(g.sources), 1, [visited |-> {}, res |-> <<>>]).res
  IN IF reverseOrder THEN res ELSE Reverse(res)

\* The graph getNodes() leaves: nodeMap[node] is operator[], applied to every
\* element of the vector nodes.
getNodesEffect(g) ==
  LET RECURSIVE go(_, _)
      go(nm, i) == IF i > Len(g.nodes) THEN nm
                   ELSE go(Subscript(nm, g.nodes[i], [first |-> FALSE, second |-> 0]), i + 1)
  IN [g EXCEPT !.nodeMap = go(g.nodeMap, 1)]

\* The graph topologicalSort() leaves: adjList[node] is operator[], applied to
\* every id dfs is called with.
topologicalSortEffect(g) ==
  LET ids == SetIter(dfsLoop(g, SetIter(g.sources), 1,
                             [visited |-> {}, res |-> <<>>]).visited)
      RECURSIVE go(_, _)
      go(adj, i) == IF i > Len(ids) THEN adj
                    ELSE go(Subscript(adj, ids[i], {}), i + 1)
  IN [g EXCEPT !.adjList = go(g.adjList, 1)]

-----------------------------------------------------------------------------
\* The graph becomes g.
Becomes(g) ==
  /\ nodes' = g.nodes
  /\ nodeMap' = g.nodeMap
  /\ adjList' = g.adjList
  /\ revAdjList' = g.revAdjList
  /\ sources' = g.sources

\* A call of the public interface: its name, arguments and returned value.
Call(op, args, ret) == [op |-> op, args |-> args, ret |-> ret]

NoTest == [pc |-> "none"]

\* No call of topologicalSort or removeNonReachable is being stepped through.
NoRun == [pc |-> "none"]

Init ==
  /\ nodes = EmptyGraph.nodes
  /\ nodeMap = EmptyGraph.nodeMap
  /\ adjList = EmptyGraph.adjList
  /\ revAdjList = EmptyGraph.revAdjList
  /\ sources = EmptyGraph.sources
  /\ lastOp = Call("Graph", <<>>, <<>>)
  /\ prev = EmptyGraph
  /\ nops = 0
  /\ test = NoTest
  /\ run = NoRun

\* A call op(args) that leaves the graph as g and returns ret.
Do(g, op, args, ret) ==
  /\ nops < MaxOps
  /\ Becomes(g)
  /\ lastOp' = Call(op, args, ret)
  /\ prev' = G
  /\ nops' = nops + 1
  /\ UNCHANGED <<test, run>>

Mutate(g, op, args) == Do(g, op, args, <<>>)

Query(op, args, ret) == Do(G, op, args, ret)

Run(r, op, args) == Do(r.g, op, args, r.ret)

AddNode(node, isSource) == Mutate(addNode(G, node, isSource), "addNode", <<node, isSource>>)

AddEdge(src, dest) == Mutate(addEdge(G, src, dest), "addEdge", <<src, dest>>)

RemoveNode(node) == Mutate(removeNode(G, node), "removeNode", <<node>>)

RemoveNonReachable ==
  \E order \in MapIterOrders(DOMAIN nodeMap) :
    Mutate(removeNonReachable(G, order), "removeNonReachable", <<>>)

GetNodes == Do(getNodesEffect(G), "getNodes", <<>>, getNodes(G))

IsConnected(src, dest) == Run(isConnected(G, src, dest), "isConnected", <<src, dest>>)

TopologicalSort(reverseOrder) ==
  Do(topologicalSortEffect(G), "topologicalSort", <<reverseOrder>>,
     topologicalSort(G, reverseOrder))

PrintGraph == Query("print", <<>>, print(G))

Next ==
  \/ \E node \in Values, isSource \in BOOLEAN : AddNode(node, isSource)
  \/ \E src \in Values, dest \in Values : AddEdge(src, dest)
  \/ \E node \in Values : RemoveNode(node)
  \/ RemoveNonReachable
  \/ GetNodes
  \/ \E src \in Values, dest \in Values : IsConnected(src, dest)
  \/ \E reverseOrder \in BOOLEAN : TopologicalSort(reverseOrder)
  \/ PrintGraph

Spec == Init /\ [][Next]_vars

-----------------------------------------------------------------------------
\* test/Misc/Graph.C: main() run on the graph G. Two of the driver's literals
\* (the destination of the first extra edge and the node it removes) are drawn
\* in TestInit; RefDest, RefSrc and RefRemoved are the values main() has.
RefDest == 3
RefSrc == 4
RefRemoved == 4

\* Node n("node", i) of the driver.
TestNode(i) == Node("node", i)

\* The locals of main(): the position pc, the loop counter i, the vector
\* nodes (and nodes2) returned by getNodes(), and what was written to std::cout.
TestInit ==
  /\ nodes = EmptyGraph.nodes
  /\ nodeMap = EmptyGraph.nodeMap
  /\ adjList = EmptyGraph.adjList
  /\ revAdjList = EmptyGraph.revAdjList
  /\ sources = EmptyGraph.sources
  /\ lastOp = Call("Graph", <<>>, <<>>)
  /\ prev = EmptyGraph
  /\ nops = 0
  /\ \E d \in 0..LoopCount, r \in 0..LoopCount :
       test = [pc |-> "loop", i |-> 0, nodes |-> <<>>, nodes2 |-> <<>>, out |-> <<>>,
               dest |-> d, src |-> RefSrc, removed |-> r]
  /\ run = NoRun

TestStep(g, t) ==
  /\ Becomes(g)
  /\ test' = t
  /\ UNCHANGED <<lastOp, prev, nops, run>>

\* for (int i = 0; i < 6; i++) { ... }: one iteration.
TestLoop ==
  /\ test.pc = "loop"
  /\ LET i  == test.i
         n  == TestNode(i)
         m  == TestNode(i + 1)
         g1 == IF i = 0 THEN addNode(G, n, TRUE) ELSE G
         g2 == addEdge(g1, n, m)
     IN TestStep(g2, [test EXCEPT !.i = i + 1,
                                  !.pc = IF i + 1 < LoopCount THEN "loop" ELSE "getNodes"])

\* nodes = G.getNodes(); std::cout << "Nodes in the graph: " << nodes.size()
TestGetNodes ==
  /\ test.pc = "getNodes"
  /\ LET res == getNodes(G)
     IN TestStep(G, [test EXCEPT !.nodes = res,
                                 !.out = Append(@, "Nodes in the graph: " \o ToString(Len(res))),
                                 !.pc = "addEdges"])

\* G.addEdge(nodes[0], nodes[3]); G.addEdge(nodes[4], nodes[0]);
TestAddEdges ==
  /\ test.pc = "addEdges"
  /\ LET g1 == addEdge(G, test.nodes[0 + 1], test.nodes[test.dest + 1])
         g2 == addEdge(g1, test.nodes[test.src + 1], test.nodes[0 + 1])
     IN TestStep(g2, [test EXCEPT !.pc = "getNodes2"])

\* nodes2 = G.getNodes(); std::cout << "Nodes in the graph: " << nodes2.size()
TestGetNodes2 ==
  /\ test.pc = "getNodes2"
  /\ LET res == getNodes(G)
     IN TestStep(G, [test EXCEPT !.nodes2 = res,
                                 !.out = Append(@, "Nodes in the graph: " \o ToString(Len(res))),
                                 !.pc = "removeNode"])

\* G.removeNode(nodes[4]);
TestRemoveNode ==
  /\ test.pc = "removeNode"
  /\ TestStep(removeNode(G, test.nodes[test.removed + 1]),
              [test EXCEPT !.pc = "removeNonReachable"])

\* G.removeNonReachable();
TestRemoveNonReachable ==
  /\ test.pc = "removeNonReachable"
  /\ \E order \in MapIterOrders(DOMAIN nodeMap) :
       TestStep(removeNonReachable(G, order), [test EXCEPT !.pc = "print"])

\* G.print();
TestPrint ==
  /\ test.pc = "print"
  /\ TestStep(G, [test EXCEPT !.out = @ \o print(G), !.pc = "done"])

TestNext ==
  \/ TestLoop
  \/ TestGetNodes
  \/ TestAddEdges
  \/ TestGetNodes2
  \/ TestRemoveNode
  \/ TestRemoveNonReachable
  \/ TestPrint

SpecTest == TestInit /\ [][TestNext]_vars

-----------------------------------------------------------------------------
\* topologicalSort and removeNonReachable stepped through, one loop iteration
\* or one call of dfs at a time. The call stepped through is the last of the
\* behaviour.

\* One iteration of the while loop of removeNonReachable() without
\* stack.pop_back().
whileStepNoPop(g, stack, visited) ==
  LET node == stack[Len(stack)]
  IN [stack   |-> stack \o SetIter(g.adjList[node] \ visited),
      visited |-> visited \cup g.adjList[node]]

\* One iteration of the while loop of removeNonReachable(): the stack and the
\* visited set it leaves.
whileStep(g, stack, visited) ==
  LET node == stack[Len(stack)]
      rest == SubSeq(stack, 1, Len(stack) - 1)
  IN [stack   |-> rest \o SetIter(g.adjList[node] \ visited),
      visited |-> visited \cup g.adjList[node]]

\* The call dfs(node) entered: node is visited and the for loop over
\* adjList[node] is at its first element.
dfsEnter(g, r, node) ==
  [r EXCEPT !.visited = @ \cup {node},
            !.frames  = Append(@, [node |-> node,
                                   dests |-> SetIter(g.adjList[node]),
                                   i |-> 1])]

\* The step changes run only.
RunOnly(r) ==
  /\ run' = r
  /\ UNCHANGED <<nodes, nodeMap, adjList, revAdjList, sources, lastOp, prev, nops, test>>

\* The call op(args) starts on the graph as it is.
RunStart(r, op, args) ==
  /\ run.pc = "none"
  /\ run' = r
  /\ lastOp' = Call(op, args, <<>>)
  /\ prev' = G
  /\ nops' = MaxOps
  /\ UNCHANGED <<nodes, nodeMap, adjList, revAdjList, sources, test>>

\* topologicalSort(reverseOrder) is called: res and visited are empty.
StartSort(reverseOrder) ==
  RunStart([pc |-> "sources", reverseOrder |-> reverseOrder,
            srcs |-> SetIter(sources), k |-> 1, frames |-> <<>>,
            stack |-> <<>>, visited |-> {}, left |-> {},
            res |-> <<>>, ret |-> <<>>],
           "topologicalSort", <<reverseOrder>>)

\* for (size_t source : sources) if (not visited) dfs(source); then the return.
SortSource ==
  /\ run.pc = "sources"
  /\ run.frames = <<>>
  /\ IF run.k <= Len(run.srcs)
       THEN LET r == [run EXCEPT !.k = @ + 1]
            IN RunOnly(IF run.srcs[run.k] \notin run.visited
                         THEN dfsEnter(G, r, run.srcs[run.k]) ELSE r)
       ELSE RunOnly([run EXCEPT !.pc = "done",
                                !.ret = IF run.reverseOrder THEN run.res
                                                            ELSE Reverse(run.res)])

\* Inside dfs(node): one iteration of its for loop, or res.push_back and return.
SortDfs ==
  /\ run.pc = "sources"
  /\ run.frames # <<>>
  /\ LET n   == Len(run.frames)
         top == run.frames[n]
     IN IF top.i <= Len(top.dests)
          THEN LET r == [run EXCEPT !.frames[n].i = @ + 1]
               IN RunOnly(IF top.dests[top.i] \notin run.visited
                            THEN dfsEnter(G, r, top.dests[top.i]) ELSE r)
          ELSE RunOnly([run EXCEPT !.res = Append(@, nodes[top.node + 1]),
                                   !.frames = SubSeq(@, 1, n - 1)])

\* removeNonReachable() is called: every source is pushed and visited.
StartPrune ==
  RunStart([pc |-> "while", reverseOrder |-> FALSE,
            srcs |-> <<>>, k |-> 1, frames |-> <<>>,
            stack |-> SetIter(sources), visited |-> sources, left |-> {},
            res |-> <<>>, ret |-> <<>>],
           "removeNonReachable", <<>>)

\* while (!stack.empty()) { ... }: one iteration, or the exit of the loop.
PruneVisit ==
  /\ run.pc = "while"
  /\ IF run.stack # <<>>
       THEN LET w == whileStep(G, run.stack, run.visited)
            IN RunOnly([run EXCEPT !.stack = w.stack, !.visited = w.visited])
       ELSE RunOnly([run EXCEPT !.pc = "prune", !.left = DOMAIN nodeMap])

\* The loop over nodeMap: one iteration, on any of the entries it has yet to
\* reach, or the return.
PruneErase ==
  /\ run.pc = "prune"
  /\ IF run.left # {}
       THEN \E key \in run.left :
              /\ Becomes(pruneLoop(G, <<key>>, 1, run.visited))
              /\ run' = [run EXCEPT !.left = @ \ {key}]
       ELSE /\ run' = [run EXCEPT !.pc = "done"]
            /\ UNCHANGED <<nodes, nodeMap, adjList, revAdjList, sources>>
  /\ UNCHANGED <<lastOp, prev, nops, test>>

\* A step of the call in progress.
RunStep ==
  \/ SortSource
  \/ SortDfs
  \/ PruneVisit
  \/ PruneErase

\* The graph is built by the calls that add and remove nodes and edges; then
\* one of the two traversals is called and stepped through.
RunNext ==
  \/ \E node \in Values, isSource \in BOOLEAN : AddNode(node, isSource)
  \/ \E src \in Values, dest \in Values : AddEdge(src, dest)
  \/ \E node \in Values : RemoveNode(node)
  \/ RemoveNonReachable
  \/ \E reverseOrder \in BOOLEAN : StartSort(reverseOrder)
  \/ StartPrune
  \/ RunStep

\* A call runs to completion before it returns: while it has a step that
\* changes its position, stack or loop index, it takes one.
SpecRun == Init /\ [][RunNext]_vars /\ WF_run(RunStep)

-----------------------------------------------------------------------------
\* Vocabulary of the properties.

\* The ids handed out so far.
Ids(g) == 0..(Len(g.nodes) - 1)

\* The value with the id `id`.
ValueOf(g, id) == g.nodes[id + 1]

\* The ids of the active nodes.
ActiveIds(g) == {g.nodeMap[v].second : v \in {w \in DOMAIN g.nodeMap : g.nodeMap[w].first}}

\* The elements of a sequence.
Elems(seq) == {seq[i] : i \in DOMAIN seq}

\* The position of x in seq.
Pos(seq, x) == CHOOSE i \in DOMAIN seq : seq[i] = x

\* The ids reachable from the set S over the edges of adj (S included).
RECURSIVE Closure(_, _)
Closure(adj, S) ==
  LET T == S \cup UNION {adj[x] : x \in S}
  IN IF T = S THEN S ELSE Closure(adj, T)

\* The ids reachable from the sources over forward edges.
Reachable(g) == Closure(g.adjList, g.sources)

\* The forward edges, as pairs of ids.
Edges(g) == {e \in Ids(g) \X Ids(g) : e[2] \in g.adjList[e[1]]}

\* No cycle of forward edges (a self-loop is a cycle).
Acyclic(g) == \A id \in Ids(g) : id \notin Closure(g.adjList, g.adjList[id])

\* The last call was op.
Called(op) == lastOp.op = op

-----------------------------------------------------------------------------
\* C1. Adjacency symmetry: in every reachable state, for all ids src and dest,
\* dest is in adjList[src] exactly when src is in revAdjList[dest].
C1_AdjacencySymmetry ==
  /\ DOMAIN adjList = Ids(G)
  /\ DOMAIN revAdjList = Ids(G)
  /\ \A src \in Ids(G), dest \in Ids(G) :
       dest \in adjList[src] <=> src \in revAdjList[dest]

\* A node with an in-edge and an out-edge has just been removed and another
\* edge is left.
C1_Witness ==
  /\ Called("removeNode")
  /\ lastOp.args[1] \in DOMAIN prev.nodeMap
  /\ LET id == prev.nodeMap[lastOp.args[1]].second
     IN /\ prev.adjList[id] \ {id} # {}
        /\ prev.revAdjList[id] \ {id} # {}
  /\ Edges(G) # {}

\* C2. topologicalSort returns exactly the active nodes reachable from the
\* sources: every node of the result is active and every active node reachable
\* from a source is in the result, also after a source has been removed.
C2_SortIsActiveReachable ==
  \A reverseOrder \in BOOLEAN :
    Elems(topologicalSort(G, reverseOrder))
      = {ValueOf(G, id) : id \in Reachable(G) \cap ActiveIds(G)}

\* C3. On an acyclic edge set, for every edge a -> b between nodes reachable
\* from a source, a is before b in topologicalSort(false) and after b in
\* topologicalSort(true).
C3_TopologicalOrderOnDAG ==
  Acyclic(G) =>
    \A a \in Reachable(G), b \in Reachable(G) :
      b \in adjList[a] =>
        LET fwd == topologicalSort(G, FALSE)
            bwd == topologicalSort(G, TRUE)
            va  == ValueOf(G, a)
            vb  == ValueOf(G, b)
        IN /\ {va, vb} \subseteq Elems(fwd)
           /\ {va, vb} \subseteq Elems(bwd)
           /\ Pos(fwd, va) < Pos(fwd, vb)
           /\ Pos(bwd, va) > Pos(bwd, vb)

\* An acyclic graph where a source has edges to b and to c, b having the
\* smaller id, and c has an edge to b: the traversal reaches b before c.
C3_Witness ==
  /\ Acyclic(G)
  /\ \E a \in sources, b \in Ids(G), c \in Ids(G) :
       /\ b < c
       /\ {b, c} \subseteq adjList[a]
       /\ b \in adjList[c]

\* C4. Id stability: a value gets its id on its first insertion, the next
\* unused integer counting from 0; no call changes the id of a known value,
\* and no two values have the same id.
C4_IdStability ==
  /\ \A v \in DOMAIN prev.nodeMap :
       /\ v \in DOMAIN nodeMap
       /\ nodeMap[v].second = prev.nodeMap[v].second
  /\ \A v \in DOMAIN nodeMap \ DOMAIN prev.nodeMap :
       nodeMap[v].second >= Cardinality(DOMAIN prev.nodeMap)
  /\ \A v \in DOMAIN nodeMap, w \in DOMAIN nodeMap :
       nodeMap[v].second = nodeMap[w].second => v = w
  /\ {nodeMap[v].second : v \in DOMAIN nodeMap} = 0..(Cardinality(DOMAIN nodeMap) - 1)
  /\ \A v \in DOMAIN nodeMap : ValueOf(G, nodeMap[v].second) = v

\* A removed node, not the last one inserted, has just been added again.
C4_Witness ==
  /\ Called("addNode")
  /\ lastOp.args[1] \in DOMAIN prev.nodeMap
  /\ ~prev.nodeMap[lastOp.args[1]].first
  /\ nodeMap[lastOp.args[1]].first
  /\ nodeMap[lastOp.args[1]].second < Len(nodes) - 1

\* The nodes removeNonReachable keeps: active before the call and reachable.
Survivors(g) == ActiveIds(g) \cap Reachable(g)

\* C5. After removeNonReachable() the active nodes are exactly those that were
\* active before and reachable from the source set; every edge between two
\* survivors is kept, every edge at a pruned node is gone; with an empty
\* source set no node is left active.
C5_RemoveNonReachablePost ==
  Called("removeNonReachable") =>
    LET keep   == Survivors(prev)
        pruned == ActiveIds(prev) \ keep
    IN /\ ActiveIds(G) = keep
       /\ \A a \in keep, b \in keep : b \in prev.adjList[a] => b \in adjList[a]
       /\ \A a \in keep, b \in keep : b \in prev.revAdjList[a] => b \in revAdjList[a]
       /\ \A e \in Edges(G) : e[1] \notin pruned /\ e[2] \notin pruned
       /\ \A q \in pruned, x \in Ids(G) : q \notin revAdjList[x] /\ x \notin revAdjList[q]
       /\ (prev.sources = {} => ActiveIds(G) = {})

\* removeNonReachable has pruned a node that had an edge to a survivor.
C5_Witness ==
  /\ Called("removeNonReachable")
  /\ \E q \in ActiveIds(prev) \ Survivors(prev), k \in Survivors(prev) :
       k \in prev.adjList[q]

\* C6. Removal isolates: right after removeNode(v) of a known v, isConnected(v, x)
\* and isConnected(x, v) are false for every value x, v included, and v is not
\* in getNodes().
C6_RemovalIsolates ==
  (Called("removeNode") /\ lastOp.args[1] \in DOMAIN prev.nodeMap) =>
    LET v == lastOp.args[1]
    IN /\ \A x \in Values : ~isConnected(G, v, x).ret /\ ~isConnected(G, x, v).ret
       /\ v \notin Elems(getNodes(G))

\* The node just removed had a self-loop, an in-edge and an out-edge.
C6_Witness ==
  /\ Called("removeNode")
  /\ lastOp.args[1] \in DOMAIN prev.nodeMap
  /\ LET id == prev.nodeMap[lastOp.args[1]].second
     IN /\ id \in prev.adjList[id]
        /\ prev.adjList[id] \ {id} # {}
        /\ prev.revAdjList[id] \ {id} # {}

\* C7. Reinsertion does not restore edges: addNode(v) of a removed v makes v
\* active under its old id, with an empty out-edge set and an empty in-edge
\* set, and v in no other node's sets.
C7_ReinsertionKeepsNoEdges ==
  (/\ Called("addNode")
   /\ lastOp.args[1] \in DOMAIN prev.nodeMap
   /\ ~prev.nodeMap[lastOp.args[1]].first) =>
    LET v  == lastOp.args[1]
        id == prev.nodeMap[v].second
    IN /\ nodeMap[v] = [first |-> TRUE, second |-> id]
       /\ v \in Elems(getNodes(G))
       /\ adjList[id] = {}
       /\ revAdjList[id] = {}
       /\ \A x \in Ids(G) : id \notin adjList[x] /\ id \notin revAdjList[x]

\* A removed node has just been added again while another node has an edge.
C7_Witness ==
  /\ Called("addNode")
  /\ lastOp.args[1] \in DOMAIN prev.nodeMap
  /\ ~prev.nodeMap[lastOp.args[1]].first
  /\ Edges(G) # {}

\* C8. Reachability exclusion: an active node with no path from a source is
\* not in topologicalSort()'s result and is in getNodes(); after
\* removeNonReachable() it is in neither.
C8_ReachabilityExclusion ==
  /\ \A id \in ActiveIds(G) \ Reachable(G) :
       /\ \A reverseOrder \in BOOLEAN :
            ValueOf(G, id) \notin Elems(topologicalSort(G, reverseOrder))
       /\ ValueOf(G, id) \in Elems(getNodes(G))
  /\ Called("removeNonReachable") =>
       \A id \in ActiveIds(prev) \ Reachable(prev) :
         /\ \A reverseOrder \in BOOLEAN :
              ValueOf(G, id) \notin Elems(topologicalSort(G, reverseOrder))
         /\ ValueOf(G, id) \notin Elems(getNodes(G))

\* removeNonReachable has just run on a graph with a reachable node besides
\* the source and an active node out of reach.
C8_Witness ==
  /\ Called("removeNonReachable")
  /\ ActiveIds(prev) \ Reachable(prev) # {}
  /\ Survivors(prev) \ prev.sources # {}

\* What the reference run of the driver leaves in std::cout.
RefOutput ==
  << "Nodes in the graph: 7", "Nodes in the graph: 7",
     "node0: #0 (source)", "node1: #1", "node2: #2", "node3: #3",
     "0 -> 1", "0 -> 3", "1 -> 2", "2 -> 3" >>

\* The driver has run to its end with the literals of main().
RefRunDone ==
  /\ test.pc = "done"
  /\ test.dest = RefDest
  /\ test.src = RefSrc
  /\ test.removed = RefRemoved

\* C9. Reference scenario: n0 a source, edges n0->n1->...->n6, then n0->n3 and
\* n4->n0 (7 nodes before and after), then removeNode(n4) and
\* removeNonReachable() leave getNodes() = [n0,n1,n2,n3], n0 the only source
\* printed, the edges 0->1, 0->3, 1->2, 2->3 printed in this order, and
\* topologicalSort(false) = [n0,n1,n2,n3].
C9_ReferenceScenario ==
  RefRunDone =>
    /\ Len(test.nodes) = 7
    /\ Len(test.nodes2) = 7
    /\ getNodes(G) = <<TestNode(0), TestNode(1), TestNode(2), TestNode(3)>>
    /\ Edges(G) = {<<0, 1>>, <<0, 3>>, <<1, 2>>, <<2, 3>>}
    /\ test.out = RefOutput
    /\ topologicalSort(G, FALSE) = <<TestNode(0), TestNode(1), TestNode(2), TestNode(3)>>

\* The reference run has ended.
C9_Witness == RefRunDone /\ Len(test.out) = Len(RefOutput)

\* C10. Calls on unknown values are harmless: removeNode(v) of a never inserted
\* v leaves the node store, the identity index, both adjacency maps and the
\* source set as they were; isConnected(a, b) with a or b never inserted
\* returns false and creates no record.
C10_UnknownValuesHarmless ==
  /\ (Called("removeNode") /\ lastOp.args[1] \notin DOMAIN prev.nodeMap) => G = prev
  /\ (/\ Called("isConnected")
      /\ (lastOp.args[1] \notin DOMAIN prev.nodeMap
          \/ lastOp.args[2] \notin DOMAIN prev.nodeMap)) =>
       /\ lastOp.ret = FALSE
       /\ G = prev

\* isConnected has just been asked about a node with an out-edge and a value
\* never inserted.
C10_Witness ==
  /\ Called("isConnected")
  /\ lastOp.args[1] \in DOMAIN prev.nodeMap
  /\ adjList[nodeMap[lastOp.args[1]].second] # {}
  /\ lastOp.args[2] \notin DOMAIN prev.nodeMap

\* The id of the value v.
IdOf(g, v) == g.nodeMap[v].second

\* v is in nodeMap with the active flag set.
IsActive(g, v) == v \in DOMAIN g.nodeMap /\ g.nodeMap[v].first

\* C11. The source set is fixed at first insertion: an id enters sources only
\* by addNode(v, true) of a value v never seen before; every other call,
\* addEdge, addNode of a known value and removeNode included, leaves sources
\* as it was.
C11_SourcesFixedAtInsertion ==
  sources = prev.sources \cup
              (IF /\ Called("addNode")
                  /\ lastOp.args[2]
                  /\ lastOp.args[1] \notin DOMAIN prev.nodeMap
                 THEN {IdOf(G, lastOp.args[1])}
                 ELSE {})

\* addNode(v, true) has just been called for a removed value v that is no
\* source, another node being one.
C11_Witness ==
  /\ Called("addNode")
  /\ lastOp.args[2]
  /\ lastOp.args[1] \in DOMAIN prev.nodeMap
  /\ ~prev.nodeMap[lastOp.args[1]].first
  /\ IdOf(G, lastOp.args[1]) \notin sources
  /\ sources # {}

\* C12. addEdge(src, dest) leaves both endpoints active, without making either
\* a source, and isConnected(src, dest) true; a second addEdge(src, dest)
\* right after changes nothing.
C12_AddEdgeInsertsAndIsIdempotent ==
  Called("addEdge") =>
    LET src  == lastOp.args[1]
        dest == lastOp.args[2]
    IN /\ IsActive(G, src)
       /\ IsActive(G, dest)
       /\ sources = prev.sources
       /\ isConnected(G, src, dest).ret
       /\ addEdge(G, src, dest) = G

\* addEdge has just been called with a removed source endpoint and a
\* destination never seen before.
C12_Witness ==
  /\ Called("addEdge")
  /\ lastOp.args[1] \in DOMAIN prev.nodeMap
  /\ ~prev.nodeMap[lastOp.args[1]].first
  /\ lastOp.args[2] \notin DOMAIN prev.nodeMap

\* C13. getNodes() returns exactly the active values, each once, in ascending
\* id, which is the order of first insertion; a node added again is back at
\* its old place.
C13_GetNodesInInsertionOrder ==
  LET res == getNodes(G)
  IN /\ Elems(res) = {v \in DOMAIN nodeMap : nodeMap[v].first}
     /\ \A i \in DOMAIN res, j \in DOMAIN res :
          i < j => IdOf(G, res[i]) < IdOf(G, res[j])
     /\ (Called("getNodes") => lastOp.ret = getNodes(prev))

\* A removed node has just been added again; it is not the last of getNodes()
\* and a value with a smaller payload id follows it.
C13_Witness ==
  /\ Called("addNode")
  /\ lastOp.args[1] \in DOMAIN prev.nodeMap
  /\ ~prev.nodeMap[lastOp.args[1]].first
  /\ LET res == getNodes(G)
         i   == Pos(res, lastOp.args[1])
     IN /\ i < Len(res)
        /\ res[i + 1].id < res[i].id

\* C15. No duplicates in the sort: for both values of reverseOrder every node
\* is at most once in the result of topologicalSort.
C15_SortHasNoDuplicates ==
  \A reverseOrder \in BOOLEAN :
    LET res == topologicalSort(G, reverseOrder)
    IN \A i \in DOMAIN res, j \in DOMAIN res : res[i] = res[j] => i = j

\* Two sources on a cycle: each is reachable from the other.
C15_Witness ==
  \E a \in sources, b \in sources :
    /\ a # b
    /\ b \in adjList[a]
    /\ a \in adjList[b]

\* C16. isConnected(src, dest) is a direct-edge test: true exactly when both
\* values are known and there is an edge from src's id to dest's id; two
\* edges a -> b -> c do not connect (a, c), an edge a -> b does not connect (b, a).
C16_IsConnectedIsDirectEdge ==
  /\ \A a \in Values, b \in Values :
       isConnected(G, a, b).ret
         <=> /\ a \in DOMAIN nodeMap
             /\ b \in DOMAIN nodeMap
             /\ IdOf(G, a) \in revAdjList[IdOf(G, b)]
  /\ Called("isConnected") =>
       (lastOp.ret
          <=> /\ lastOp.args[1] \in DOMAIN prev.nodeMap
              /\ lastOp.args[2] \in DOMAIN prev.nodeMap
              /\ <<IdOf(prev, lastOp.args[1]), IdOf(prev, lastOp.args[2])>> \in Edges(prev))

\* isConnected(a, c) has just returned false with edges a -> b and b -> c.
C16_Witness ==
  /\ Called("isConnected")
  /\ lastOp.ret = FALSE
  /\ lastOp.args[1] \in DOMAIN nodeMap
  /\ lastOp.args[2] \in DOMAIN nodeMap
  /\ \E b \in Ids(G) :
       /\ b \in adjList[IdOf(G, lastOp.args[1])]
       /\ IdOf(G, lastOp.args[2]) \in adjList[b]

\* C17. Frame of removeNode: removeNode(v) of a known v clears v's active flag
\* and removes exactly the edges at v; the other nodes' ids and flags, the
\* edges between other nodes in both maps, the vector nodes and sources stay.
C17_RemoveNodeFrame ==
  (Called("removeNode") /\ lastOp.args[1] \in DOMAIN prev.nodeMap) =>
    LET v  == lastOp.args[1]
        id == IdOf(prev, v)
    IN /\ nodes = prev.nodes
       /\ sources = prev.sources
       /\ nodeMap = [prev.nodeMap EXCEPT ![v].first = FALSE]
       /\ adjList = [x \in DOMAIN prev.adjList |->
                       IF x = id THEN {} ELSE prev.adjList[x] \ {id}]
       /\ revAdjList = [x \in DOMAIN prev.revAdjList |->
                          IF x = id THEN {} ELSE prev.revAdjList[x] \ {id}]

\* The node just removed is a source with an out-edge, and an edge between two
\* other nodes is left.
C17_Witness ==
  /\ Called("removeNode")
  /\ lastOp.args[1] \in DOMAIN prev.nodeMap
  /\ LET id == IdOf(prev, lastOp.args[1])
     IN /\ id \in prev.sources
        /\ prev.adjList[id] # {}
        /\ \E e \in Edges(G) : e[1] # e[2]

\* C18. Every edge connects two active nodes: an inactive node has empty
\* adjList and revAdjList entries and is in no other node's entries.
C18_EdgesJoinActiveNodes ==
  \A x \in Ids(G) :
    x \notin ActiveIds(G) =>
      /\ adjList[x] = {}
      /\ revAdjList[x] = {}
      /\ \A y \in Ids(G) : x \notin adjList[y] /\ x \notin revAdjList[y]

\* An edge has just been added while some node is inactive.
C18_Witness ==
  /\ Called("addEdge")
  /\ Edges(G) # Edges(prev)
  /\ Ids(G) \ ActiveIds(G) # {}

\* C19. removeNonReachable is idempotent: called again right after itself, in
\* any iteration order, it changes nothing.
C19_RemoveNonReachableIdempotent ==
  Called("removeNonReachable") =>
    \A order \in MapIterOrders(DOMAIN nodeMap) : removeNonReachable(G, order) = G

\* removeNonReachable has just pruned a node and kept an edge.
C19_Witness ==
  /\ Called("removeNonReachable")
  /\ ActiveIds(G) # ActiveIds(prev)
  /\ Edges(G) # {}

\* C20. The queries are read-only: getNodes(), isConnected(a, b) and
\* topologicalSort(reverseOrder) leave nodes, nodeMap, adjList, revAdjList and
\* sources as they were, so the same query asked again returns the same.
C20_QueriesReadOnly ==
  /\ Called("getNodes") => G = prev /\ getNodes(G) = lastOp.ret
  /\ Called("isConnected") =>
       /\ G = prev
       /\ isConnected(G, lastOp.args[1], lastOp.args[2]).ret = lastOp.ret
  /\ Called("topologicalSort") =>
       /\ G = prev
       /\ topologicalSort(G, lastOp.args[1]) = lastOp.ret

\* topologicalSort has just returned two nodes or more.
C20_Witness ==
  /\ Called("topologicalSort")
  /\ Len(lastOp.ret) >= 2

\* A call of topologicalSort or removeNonReachable is in progress.
Running == run.pc \in {"sources", "while", "prune"}

\* The call stepped through has returned what the call taken as a whole
\* returns: the sequence of topologicalSort, the graph of removeNonReachable.
RunAgrees ==
  run.pc = "done" =>
    IF Called("topologicalSort")
      THEN G = prev /\ run.ret = topologicalSort(G, lastOp.args[1])
      ELSE \E order \in MapIterOrders(DOMAIN nodeMap) :
             G = removeNonReachable(prev, order)

\* No step of the call reads nodes or adjList out of range: every id on the
\* stack, in visited or in a frame of dfs is the index of an element of nodes
\* and a key of adjList.
RunInRange ==
  Running =>
    (Elems(run.stack) \cup run.visited \cup {run.frames[i].node : i \in DOMAIN run.frames})
      \subseteq (Ids(G) \cap DOMAIN adjList)

\* C14. topologicalSort and removeNonReachable terminate on every graph state,
\* with self-loops, cycles reachable from a source and disconnected parts:
\* a call that has started returns, no step of it reads out of range, and what
\* it returns is the result of the call.
C14_SortAndPruneTerminate ==
  /\ Running ~> (run.pc = "done")
  /\ []RunInRange
  /\ []RunAgrees

\* A call has returned on a graph where a source lies on a cycle, a node has
\* a self-loop and a node is out of reach of the sources.
C14_Witness ==
  /\ run.pc = "done"
  /\ \E a \in prev.sources :
       a \in Closure(prev.adjList, prev.adjList[a])
  /\ \E x \in Ids(prev) : x \in prev.adjList[x]
  /\ ActiveIds(prev) \ Reachable(prev) # {}

-----------------------------------------------------------------------------
\* Shape of the state.
TypeOK ==
  /\ DOMAIN nodeMap \subseteq Values
  /\ DOMAIN adjList = 0..(Len(nodes) - 1)
  /\ DOMAIN revAdjList = 0..(Len(nodes) - 1)
  /\ sources \subseteq 0..(Len(nodes) - 1)
  /\ nops \in 0..MaxOps
====
